---- MODULE Spec2Model ----
(***************************************************************************)
(* Model of api/index.py: the fetch / cache / retry access layer of the    *)
(* investment service (rate_limit, make_fmp_request, search_fmp_stocks,    *)
(* search_stocks, get_stock_data, and the cache key of get_exchange_rate). *)
(*                                                                         *)
(* Spec and SpecConc run the service; SpecSearch, SpecQuote, SpecKeys and   *)
(* SpecHistory apply one handler's computation to inputs drawn in Init.    *)
(*                                                                         *)
(* Time is counted in tenths of a second, so that RATE_LIMIT (0.3 s),      *)
(* RETRY_DELAY (0.5 s) and CACHE_DURATION (300 s) are all integers.        *)
(* Strings that the code inspects character by character (symbols, names,  *)
(* queries, cache keys) are sequences of one-character strings.            *)
(***************************************************************************)
EXTENDS Integers, Sequences, FiniteSets, TLC

\* ------------------------------------------------------------------------
\* Program constants (index.py lines 47-53), in tenths of a second
\* ------------------------------------------------------------------------
CACHE_DURATION == 3000
MAX_RETRIES == 2
RETRY_DELAY == 5
RATE_LIMIT == 3

\* ------------------------------------------------------------------------
\* Bounds of the exploration
\* ------------------------------------------------------------------------
\* clock reading (time.time()) when the process starts
Epoch == 10
\* the clock is explored tick by tick for Span ticks after the process
\* starts, and again from one tick before Epoch + CACHE_DURATION
Span == 6
\* the clock readings explored after Epoch + CACHE_DURATION
LateSpan == 1
\* ticks explored while an HTTP GET waits for its response
MaxLatency == 1
\* number of requests the service handles in one run
MaxRequests == 3
\* number of requests in a run of interleaved threads
MaxConcRequests == 2
\* ticks of the clock explored in a run of interleaved threads
ConcSpan == 5
\* number of request threads of the threaded server
NumThreads == 2

Threads == 1 .. NumThreads
MainThread == CHOOSE t \in Threads : \A u \in Threads : t <= u

\* ------------------------------------------------------------------------
\* Characters and strings
\* ------------------------------------------------------------------------
UpperChars == <<"A", "B", "L", "P">>
LowerChars == <<"a", "b", "l", "p">>
\* the characters of the model in code point order
Chars == <<" ", ".", "1">> \o UpperChars \o <<"_">> \o LowerChars

IndexIn(c, s) == CHOOSE i \in 1 .. Len(s) : s[i] = c
IsUpperChar(c) == \E i \in 1 .. Len(UpperChars) : UpperChars[i] = c
IsLowerChar(c) == \E i \in 1 .. Len(LowerChars) : LowerChars[i] = c
\* ord(c)
CharCode(c) == IndexIn(c, Chars)
UpperChar(c) == IF IsLowerChar(c) THEN UpperChars[IndexIn(c, LowerChars)] ELSE c
LowerChar(c) == IF IsUpperChar(c) THEN LowerChars[IndexIn(c, UpperChars)] ELSE c
\* str.upper(), str.lower()
Upper(s) == [i \in 1 .. Len(s) |-> UpperChar(s[i])]
Lower(s) == [i \in 1 .. Len(s) |-> LowerChar(s[i])]

\* f"stock_{...}" and f"us_search_{...}"
StockPrefix == <<"s", "t", "o", "c", "k", "_">>
SearchPrefix == <<"u", "s", "_", "s", "e", "a", "r", "c", "h", "_">>
\* the quote key without the upper()
StockKeyAsTyped(symbol) == StockPrefix \o symbol

StockKey(symbol) == StockPrefix \o Upper(symbol)
SearchKey(query) == SearchPrefix \o Lower(query)
\* cache_key = 'exchange_rate'
ExchangeRateKey == <<"e", "x", "c", "h", "a", "n", "g", "e", "_", "r", "a", "t", "e">>

\* ------------------------------------------------------------------------
\* String helpers used by the search reshaping and the sort key
\* ------------------------------------------------------------------------
IsAlphaChar(c) == IsUpperChar(c) \/ IsLowerChar(c)
\* str.isalpha(): at least one character and all of them letters
IsAlpha(s) == Len(s) > 0 /\ \A i \in 1 .. Len(s) : IsAlphaChar(s[i])
\* '.' in s
HasDot(s) == \E i \in 1 .. Len(s) : s[i] = "."
\* s.replace('.', '')
RemoveDots(s) == SelectSeq(s, LAMBDA c : c # ".")
\* s.startswith(p)
StartsWith(s, p) == Len(p) <= Len(s) /\ SubSeq(s, 1, Len(p)) = p
\* the check without the strip(): only the empty string is blank
IsBlankNoStrip(s) == Len(s) = 0

\* not s  /  len(s.strip()) < 1 for a route argument
IsBlank(s) == \A i \in 1 .. Len(s) : s[i] = " "

\* a Python dict is a function whose domain is the set of its keys
HasKey(d, k) == k \in DOMAIN d
\* d.get(k, default)
Get(d, k, default) == IF HasKey(d, k) THEN d[k] ELSE default

\* ------------------------------------------------------------------------
\* search_fmp_stocks: reshaping of the upstream search payload
\* ------------------------------------------------------------------------
\* the allow-list of a broader variant
USExchangesWithLSE == {"NYSE", "NASDAQ", "AMEX", "LSE"}

\* ['NYSE', 'NASDAQ', 'AMEX']
USExchanges == {"NYSE", "NASDAQ", "AMEX"}
\* if len(results) >= 20: break
ResultLimit == 20
\* results[:10]
DisplayLimit == 10

\* the dict appended to results; 'country' is a fixed label, written "US" here
SearchEntry(item, symbol, exchange) ==
    [symbol |-> symbol,
     name |-> item["name"],
     exchange |-> exchange,
     currency |-> "USD",
     displayText |-> item["name"] \o <<" ", "(">> \o symbol \o <<")">>,
     country |-> "US",
     type |-> "stock"]

\* the pattern checks without the `'.' in symbol` one
SymbolPatternOkNoDotCheck(symbol) ==
    ~(~IsAlpha(RemoveDots(symbol)) \/ Len(symbol) > 6)

\* the symbol pattern checks of the loop body
SymbolPatternOk(symbol) ==
    /\ ~(~IsAlpha(RemoveDots(symbol)) \/ Len(symbol) > 6)
    /\ ~HasDot(symbol)

\* the loop without the seen_symbols check
RECURSIVE ReshapeLoopNoDedup(_, _, _, _)
ReshapeLoopNoDedup(items, i, results, seen) ==
    IF i > Len(items) THEN [ok |-> TRUE, results |-> results]
    ELSE LET item == items[i] IN
      IF ~HasKey(item, "symbol") THEN [ok |-> FALSE, results |-> <<>>]
      ELSE LET symbol == item["symbol"]
               exchange == Get(item, "exchangeShortName", "")
           IN IF exchange \notin USExchanges
              THEN ReshapeLoopNoDedup(items, i + 1, results, seen)
              ELSE IF ~SymbolPatternOk(symbol)
                   THEN ReshapeLoopNoDedup(items, i + 1, results, seen)
              ELSE IF ~HasKey(item, "name") THEN [ok |-> FALSE, results |-> <<>>]
              ELSE LET appended == Append(results, SearchEntry(item, symbol, exchange))
                   IN IF Len(appended) >= ResultLimit
                      THEN [ok |-> TRUE, results |-> appended]
                      ELSE ReshapeLoopNoDedup(items, i + 1, appended, seen)

\* the for loop over search_data; ok = FALSE stands for a KeyError raised by
\* item['symbol'] or item['name']
RECURSIVE ReshapeLoop(_, _, _, _)
ReshapeLoop(items, i, results, seen) ==
    IF i > Len(items) THEN [ok |-> TRUE, results |-> results]
    ELSE LET item == items[i] IN
      IF ~HasKey(item, "symbol") THEN [ok |-> FALSE, results |-> <<>>]
      ELSE LET symbol == item["symbol"]
               exchange == Get(item, "exchangeShortName", "")
           IN IF symbol \in seen THEN ReshapeLoop(items, i + 1, results, seen)
              ELSE IF exchange \notin USExchanges
                   THEN ReshapeLoop(items, i + 1, results, seen \cup {symbol})
              ELSE IF ~SymbolPatternOk(symbol)
                   THEN ReshapeLoop(items, i + 1, results, seen \cup {symbol})
              ELSE IF ~HasKey(item, "name") THEN [ok |-> FALSE, results |-> <<>>]
              ELSE LET appended == Append(results, SearchEntry(item, symbol, exchange))
                   IN IF Len(appended) >= ResultLimit
                      THEN [ok |-> TRUE, results |-> appended]
                      ELSE ReshapeLoop(items, i + 1, appended, seen \cup {symbol})

\* ------------------------------------------------------------------------
\* sort_key_us and list.sort(key=...)
\* ------------------------------------------------------------------------
BoolInt(b) == IF b THEN 1 ELSE 0

\* the key without its first component, not symbol_exact
sort_key_us_no_exact(item, query) ==
    LET name_starts == StartsWith(Lower(item.name), Lower(query))
        symbol_starts == StartsWith(Lower(item.symbol), Lower(query))
        is_nasdaq_nyse == item.exchange \in {"NASDAQ", "NYSE"}
        symbol_length == Len(item.symbol)
    IN <<BoolInt(~symbol_starts), BoolInt(~name_starts),
         BoolInt(~is_nasdaq_nyse), symbol_length>>
       \o [i \in 1 .. Len(item.symbol) |-> CharCode(item.symbol[i])]

\* the key without symbol_length
sort_key_us_no_length(item, query) ==
    LET symbol_exact == Lower(item.symbol) = Lower(query)
        name_starts == StartsWith(Lower(item.name), Lower(query))
        symbol_starts == StartsWith(Lower(item.symbol), Lower(query))
        is_nasdaq_nyse == item.exchange \in {"NASDAQ", "NYSE"}
    IN <<BoolInt(~symbol_exact), BoolInt(~symbol_starts), BoolInt(~name_starts),
         BoolInt(~is_nasdaq_nyse)>>
       \o [i \in 1 .. Len(item.symbol) |-> CharCode(item.symbol[i])]

\* the key tuple, with False < True as 0 < 1 and the symbol as its code points
sort_key_us(item, query) ==
    LET symbol_exact == Lower(item.symbol) = Lower(query)
        name_starts == StartsWith(Lower(item.name), Lower(query))
        symbol_starts == StartsWith(Lower(item.symbol), Lower(query))
        is_nasdaq_nyse == item.exchange \in {"NASDAQ", "NYSE"}
        symbol_length == Len(item.symbol)
    IN <<BoolInt(~symbol_exact), BoolInt(~symbol_starts), BoolInt(~name_starts),
         BoolInt(~is_nasdaq_nyse), symbol_length>>
       \o [i \in 1 .. Len(item.symbol) |-> CharCode(item.symbol[i])]

\* tuple comparison a < b
RECURSIVE LexLess(_, _)
LexLess(a, b) ==
    IF Len(b) = 0 THEN FALSE
    ELSE IF Len(a) = 0 THEN TRUE
    ELSE IF Head(a) # Head(b) THEN Head(a) < Head(b)
    ELSE LexLess(Tail(a), Tail(b))

\* x goes in front of the first element whose key is greater: a stable sort
RECURSIVE InsertSorted(_, _, _)
InsertSorted(x, sorted, query) ==
    IF sorted = <<>> THEN <<x>>
    ELSE IF LexLess(sort_key_us(x, query), sort_key_us(Head(sorted), query))
         THEN <<x>> \o sorted
         ELSE <<Head(sorted)>> \o InsertSorted(x, Tail(sorted), query)

RECURSIVE SortResults(_, _)
SortResults(results, query) ==
    IF results = <<>> THEN <<>>
    ELSE InsertSorted(results[Len(results)],
                      SortResults(SubSeq(results, 1, Len(results) - 1), query), query)

\* s[:n]
Take(s, n) == SubSeq(s, 1, IF Len(s) < n THEN Len(s) ELSE n)

\* ------------------------------------------------------------------------
\* The TTL cache: cache[key] = {'data': ..., 'time': ...}
\* ------------------------------------------------------------------------
\* the lookup with an entry of age CACHE_DURATION still served
CacheFreshInclusive(c, key, current) ==
    key \in DOMAIN c /\ (current - c[key].time) <= CACHE_DURATION

\* cache_key in cache and (current_time - cache[cache_key]['time']) < CACHE_DURATION
CacheFresh(c, key, current) ==
    key \in DOMAIN c /\ (current - c[key].time) < CACHE_DURATION

\* a store that is lost
CachePutDropped(c, key, data, current) == c

\* a store that keeps no other entry
CachePutAlone(c, key, data, current) ==
    [k \in {key} |-> [data |-> data, time |-> current]]

\* cache[cache_key] = {'data': data, 'time': current}
CachePut(c, key, data, current) ==
    [k \in DOMAIN c \cup {key} |->
        IF k = key THEN [data |-> data, time |-> current] ELSE c[k]]

\* ------------------------------------------------------------------------
\* Responses: HTTP status, whether the JSON body has an 'error' key, the
\* body's 'source' key ("" when it has none) and the rest of the body
\* ------------------------------------------------------------------------
NoBody == <<>>
NoResp == [status |-> 0, error |-> FALSE, source |-> "", body |-> NoBody]
ErrorResp(status) == [status |-> status, error |-> TRUE, source |-> "", body |-> NoBody]

\* ------------------------------------------------------------------------
\* get_stock_data: reshaping of the upstream quote payload
\* ------------------------------------------------------------------------
\* stock_data with change and changePercent computed from previousClose
StockDataFromPreviousClose(symbol, quote) ==
    IF ~HasKey(quote, "symbol") \/ ~HasKey(quote, "price")
    THEN [ok |-> FALSE, data |-> NoBody]
    ELSE LET close == Get(quote, "previousClose", 0) IN
         [ok |-> TRUE,
          data |-> [symbol |-> quote["symbol"],
                    name |-> Get(quote, "name", symbol),
                    price |-> quote["price"],
                    change |-> quote["price"] - close,
                    changePercent |-> IF close = 0 THEN 0
                                      ELSE ((quote["price"] - close) * 100) \div close,
                    currency |-> "USD",
                    source |-> "fmp_api",
                    filter |-> "US_STOCK"]]

\* the dict built from quote_data[0]; ok = FALSE stands for the KeyError of
\* quote['symbol'] or quote['price']
StockData(symbol, quote) ==
    IF ~HasKey(quote, "symbol") \/ ~HasKey(quote, "price")
    THEN [ok |-> FALSE, data |-> NoBody]
    ELSE [ok |-> TRUE,
          data |-> [symbol |-> quote["symbol"],
                    name |-> Get(quote, "name", symbol),
                    price |-> quote["price"],
                    change |-> Get(quote, "change", 0),
                    changePercent |-> Get(quote, "changesPercentage", 0),
                    currency |-> "USD",
                    source |-> "fmp_api",
                    filter |-> "US_STOCK"]]

\* jsonify(cache[cache_key]['data'])
QuoteCachedResp(data) ==
    [status |-> 200, error |-> FALSE, source |-> data.source, body |-> data]

\* get_stock_data with the not-found answer written to the cache
QuoteFinishStoresNotFound(symbol, fetched) ==
    IF fetched.raised
    THEN [resp |-> ErrorResp(500), store |-> FALSE, data |-> NoBody, failure |-> "fetch"]
    ELSE IF Len(fetched.data) = 0
    THEN [resp |-> ErrorResp(404), store |-> TRUE, data |-> NoBody, failure |-> "notfound"]
    ELSE LET sd == StockData(symbol, fetched.data[1]) IN
         IF ~sd.ok
         THEN [resp |-> ErrorResp(500), store |-> FALSE, data |-> NoBody,
               failure |-> "reshape"]
         ELSE [resp |-> [status |-> 200, error |-> FALSE, source |-> sd.data.source,
                         body |-> sd.data],
               store |-> TRUE, data |-> sd.data, failure |-> "none"]

\* what get_stock_data does once make_fmp_request has raised or returned:
\* the response, whether the cache is written, and which step failed
QuoteFinish(symbol, fetched) ==
    IF fetched.raised
    THEN [resp |-> ErrorResp(500), store |-> FALSE, data |-> NoBody, failure |-> "fetch"]
    ELSE IF Len(fetched.data) = 0
    THEN [resp |-> ErrorResp(404), store |-> FALSE, data |-> NoBody, failure |-> "notfound"]
    ELSE LET sd == StockData(symbol, fetched.data[1]) IN
         IF ~sd.ok
         THEN [resp |-> ErrorResp(500), store |-> FALSE, data |-> NoBody,
               failure |-> "reshape"]
         ELSE [resp |-> [status |-> 200, error |-> FALSE, source |-> sd.data.source,
                         body |-> sd.data],
               store |-> TRUE, data |-> sd.data, failure |-> "none"]

\* ------------------------------------------------------------------------
\* search_fmp_stocks and search_stocks
\* ------------------------------------------------------------------------
\* the value search_fmp_stocks returns: [] when make_fmp_request raised, when
\* the payload is empty and when the loop raised
search_fmp_stocks(fetched) ==
    IF fetched.raised THEN <<>>
    ELSE IF Len(fetched.data) = 0 THEN <<>>
    ELSE LET r == ReshapeLoop(fetched.data, 1, <<>>, {}) IN
         IF r.ok THEN r.results ELSE <<>>

\* which step of the search failed, for the record
SearchFailure(fetched) ==
    IF fetched.raised THEN "fetch"
    ELSE IF Len(fetched.data) = 0 THEN "none"
    ELSE IF ReshapeLoop(fetched.data, 1, <<>>, {}).ok THEN "none" ELSE "reshape"

SearchBody(results) == [results |-> Take(results, DisplayLimit), count |-> Len(results)]

\* the response of a cache hit without the [:10]
SearchCachedRespUncut(data) ==
    [status |-> 200, error |-> FALSE, source |-> "cache",
     body |-> [results |-> data, count |-> Len(data)]]

\* the response of a cache hit
SearchCachedResp(data) ==
    [status |-> 200, error |-> FALSE, source |-> "cache", body |-> SearchBody(data)]

\* search_stocks with the [:10] taken before the sort
SearchFinishCutsFirst(query, fetched) ==
    LET fmp_results == SortResults(Take(search_fmp_stocks(fetched), DisplayLimit), query) IN
    [resp |-> [status |-> 200, error |-> FALSE, source |-> "fmp_api",
               body |-> SearchBody(fmp_results)],
     store |-> TRUE, data |-> fmp_results, failure |-> SearchFailure(fetched)]

\* what search_stocks does once search_fmp_stocks has returned
SearchFinish(query, fetched) ==
    LET fmp_results == SortResults(search_fmp_stocks(fetched), query) IN
    [resp |-> [status |-> 200, error |-> FALSE, source |-> "fmp_api",
               body |-> SearchBody(fmp_results)],
     store |-> TRUE, data |-> fmp_results, failure |-> SearchFailure(fetched)]

\* ------------------------------------------------------------------------
\* Inputs: route arguments and upstream payloads
\* ------------------------------------------------------------------------
QuoteSymbols == {<<"A", "B">>, <<"a", "b">>}
SearchQueries == {<<"a", "b">>, <<" ">>}

GoodQuote == [symbol |-> <<"A", "B">>, name |-> <<"A", "b", " ", "L">>, price |-> 110,
              change |-> 10, changesPercentage |-> 10, previousClose |-> 100]
NoPriceQuote == [symbol |-> <<"A", "B">>, name |-> <<"A", "b", " ", "L">>]
QuotePayloads == {<<>>, <<GoodQuote>>, <<NoPriceQuote>>}

ItemAB == [symbol |-> <<"A", "B">>, name |-> <<"A", "b", " ", "L">>,
           exchangeShortName |-> "NYSE"]
ItemABL == [symbol |-> <<"A", "B", "L">>, name |-> <<"B", "a", "l">>,
            exchangeShortName |-> "NASDAQ"]
ItemABDup == [symbol |-> <<"A", "B">>, name |-> <<"P", "a", "l">>,
              exchangeShortName |-> "AMEX"]
ItemLSE == [symbol |-> <<"P">>, name |-> <<"P", "a">>, exchangeShortName |-> "LSE"]
ItemNoName == [symbol |-> <<"B">>, exchangeShortName |-> "NYSE"]
SearchPayloads == {<<>>, <<ItemABL, ItemAB, ItemABDup, ItemLSE>>, <<ItemAB, ItemNoName>>}

\* the clock readings the exploration visits
ConcOffsets == 0 .. ConcSpan
ClockOffsets == (0 .. Span) \cup ((CACHE_DURATION - 1) .. (CACHE_DURATION + LateSpan))
None == 0 - 1

\* ------------------------------------------------------------------------
\* State
\* ------------------------------------------------------------------------
VARIABLES
    now,               \* time.time()
    cache,             \* the global cache dict
    last_api_request,  \* the global of rate_limit
    pc,                \* where each request thread is
    kind,              \* "quote" or "search": the handler the thread runs
    arg,               \* the route argument (symbol or query)
    current_time,      \* the handler's local current_time
    elapsed,           \* rate_limit's local elapsed
    attempt,           \* make_fmp_request's loop variable
    wakeAt,            \* when the thread's time.sleep ends
    sentAt,            \* when the thread's HTTP GET was sent
    resp,              \* the response of the thread's last request
    \* history of the run, read by the properties only
    served,            \* "cache" / "api": the branch that built the response
    failure,           \* "none" / "fetch" / "reshape" / "notfound"
    outs,              \* outcomes of the HTTP GETs of the thread's request
    backoffs,          \* time.sleep(RETRY_DELAY) calls of the thread's request
    fetchedAt,         \* per quote key: start of the last quote that stored it
    rlLog,             \* returns of rate_limit: count, first, previous, last
    getLog,            \* times of the last two HTTP GETs
    reqCount,          \* requests started so far
    \* the functions applied on their own to inputs drawn from bounded sets
    trial,             \* the input: arguments and upstream payload
    result,            \* what the function made of it
    \* the strategy store
    strategies,        \* the global strategies dict, in insertion order
    posted             \* POSTs answered 200 so far, read by the properties only

locals == <<pc, kind, arg, current_time, elapsed, attempt, wakeAt, sentAt, resp>>
history == <<served, failure, outs, backoffs, fetchedAt, rlLog, getLog, reqCount>>
pure == <<trial, result>>
store == <<strategies, posted>>
vars == <<now, cache, last_api_request, locals, history, pure, store>>

\* no input drawn, nothing computed
NoTrial == [kind |-> "none"]
NoResult == [stage |-> 0]

\* the service after start-up: the module globals and idle request threads
Started ==
    /\ now = Epoch
    /\ cache = <<>>
    /\ last_api_request = 0
    /\ pc = [t \in Threads |-> "idle"]
    /\ kind = [t \in Threads |-> "none"]
    /\ arg = [t \in Threads |-> <<>>]
    /\ current_time = [t \in Threads |-> 0]
    /\ elapsed = [t \in Threads |-> 0]
    /\ attempt = [t \in Threads |-> 0]
    /\ wakeAt = [t \in Threads |-> 0]
    /\ sentAt = [t \in Threads |-> 0]
    /\ resp = [t \in Threads |-> NoResp]
    /\ served = [t \in Threads |-> "none"]
    /\ failure = [t \in Threads |-> "none"]
    /\ outs = [t \in Threads |-> <<>>]
    /\ backoffs = [t \in Threads |-> 0]
    /\ fetchedAt = <<>>
    /\ rlLog = [n |-> 0, first |-> None, prev |-> None, last |-> None,
                prevBy |-> 0, lastBy |-> 0]
    /\ getLog = [prev |-> None, last |-> None, prevBy |-> 0, lastBy |-> 0]
    /\ reqCount = 0
    /\ strategies = <<>>
    /\ posted = 0

Init ==
    /\ Started
    /\ trial = NoTrial
    /\ result = NoResult

\* ------------------------------------------------------------------------
\* The clock
\* ------------------------------------------------------------------------
\* a thread that is computing: its next statement takes no time
Running(t) == pc[t] \in {"rate_limit", "rl_stamp", "get"}
\* a thread whose time.sleep has ended
Woken(t) == pc[t] \in {"rl_sleep", "retry_sleep"} /\ now >= wakeAt[t]

\* a thread whose HTTP GET has waited as long as the exploration lets it
Overdue(t) == pc[t] \in {"wait", "rate_wait"} /\ now - sentAt[t] >= MaxLatency

\* time passes while every thread is idle, asleep or waiting for the upstream:
\* the clock moves to the next reading the exploration visits
Advance(offsets) ==
    /\ \A t \in Threads : ~Running(t) /\ ~Woken(t) /\ ~Overdue(t)
    /\ \E o \in offsets : Epoch + o > now
    /\ now' = Epoch + (CHOOSE o \in offsets :
                         /\ Epoch + o > now
                         /\ \A o2 \in offsets : Epoch + o2 > now => o <= o2)
    /\ UNCHANGED <<cache, last_api_request, locals, history, pure, store>>

Tick == Advance(ClockOffsets)
TickConc == Advance(ConcOffsets)

\* ------------------------------------------------------------------------
\* A request starts: the handler up to its cache lookup
\* ------------------------------------------------------------------------
\* the history kept when thread t starts a request
BeginRequest(t) ==
    /\ reqCount < MaxRequests
    /\ reqCount' = reqCount + 1
    /\ outs' = [outs EXCEPT ![t] = <<>>]
    /\ backoffs' = [backoffs EXCEPT ![t] = 0]
    /\ failure' = [failure EXCEPT ![t] = "none"]
    /\ UNCHANGED <<fetchedAt, rlLog, getLog>>

\* get_stock_data with a hit that stamps the entry with the time of the read
StartQuoteRefreshesHit(t, symbol) ==
    /\ pc[t] = "idle"
    /\ BeginRequest(t)
    /\ kind' = [kind EXCEPT ![t] = "quote"]
    /\ arg' = [arg EXCEPT ![t] = symbol]
    /\ current_time' = [current_time EXCEPT ![t] = now]
    /\ IF Len(symbol) = 0
       THEN /\ resp' = [resp EXCEPT ![t] = ErrorResp(400)]
            /\ served' = [served EXCEPT ![t] = "none"]
            /\ UNCHANGED <<pc, cache>>
       ELSE IF CacheFresh(cache, StockKey(symbol), now)
       THEN /\ resp' = [resp EXCEPT ![t] = QuoteCachedResp(cache[StockKey(symbol)].data)]
            /\ served' = [served EXCEPT ![t] = "cache"]
            /\ cache' = CachePut(cache, StockKey(symbol), cache[StockKey(symbol)].data, now)
            /\ UNCHANGED pc
       ELSE /\ resp' = [resp EXCEPT ![t] = NoResp]
            /\ served' = [served EXCEPT ![t] = "none"]
            /\ pc' = [pc EXCEPT ![t] = "rate_limit"]
            /\ UNCHANGED cache
    /\ UNCHANGED <<pure, store, now, last_api_request, elapsed, attempt, wakeAt, sentAt>>

\* get_stock_data, lines 1803-1812
StartQuote(t, symbol) ==
    /\ pc[t] = "idle"
    /\ BeginRequest(t)
    /\ kind' = [kind EXCEPT ![t] = "quote"]
    /\ arg' = [arg EXCEPT ![t] = symbol]
    /\ current_time' = [current_time EXCEPT ![t] = now]
    /\ IF Len(symbol) = 0
       THEN /\ resp' = [resp EXCEPT ![t] = ErrorResp(400)]
            /\ served' = [served EXCEPT ![t] = "none"]
            /\ UNCHANGED pc
       ELSE IF CacheFresh(cache, StockKey(symbol), now)
       THEN /\ resp' = [resp EXCEPT ![t] = QuoteCachedResp(cache[StockKey(symbol)].data)]
            /\ served' = [served EXCEPT ![t] = "cache"]
            /\ UNCHANGED pc
       ELSE /\ resp' = [resp EXCEPT ![t] = NoResp]
            /\ served' = [served EXCEPT ![t] = "none"]
            /\ pc' = [pc EXCEPT ![t] = "rate_limit"]
    /\ UNCHANGED <<pure, store, now, cache, last_api_request, elapsed, attempt, wakeAt, sentAt>>

\* search_stocks, lines 1672-1692
StartSearch(t, query) ==
    /\ pc[t] = "idle"
    /\ BeginRequest(t)
    /\ kind' = [kind EXCEPT ![t] = "search"]
    /\ arg' = [arg EXCEPT ![t] = query]
    /\ IF Len(query) = 0 \/ IsBlank(query)
       THEN /\ resp' = [resp EXCEPT ![t] =
                          [ErrorResp(400) EXCEPT !.body = SearchBody(<<>>)]]
            /\ served' = [served EXCEPT ![t] = "none"]
            /\ current_time' = [current_time EXCEPT ![t] = 0]
            /\ UNCHANGED pc
       ELSE /\ current_time' = [current_time EXCEPT ![t] = now]
            /\ IF CacheFresh(cache, SearchKey(query), now)
               THEN /\ resp' = [resp EXCEPT ![t] =
                                  SearchCachedResp(cache[SearchKey(query)].data)]
                    /\ served' = [served EXCEPT ![t] = "cache"]
                    /\ UNCHANGED pc
               ELSE /\ resp' = [resp EXCEPT ![t] = NoResp]
                    /\ served' = [served EXCEPT ![t] = "none"]
                    /\ pc' = [pc EXCEPT ![t] = "rate_limit"]
    /\ UNCHANGED <<pure, store, now, cache, last_api_request, elapsed, attempt, wakeAt, sentAt>>

\* ------------------------------------------------------------------------
\* rate_limit, lines 1568-1577
\* ------------------------------------------------------------------------
\* the comparison turned round
MustWaitInverted(e) == e > RATE_LIMIT

\* if elapsed < RATE_LIMIT
MustWait(e) == e < RATE_LIMIT

\* current_time = time.time(); elapsed = current_time - last_api_request;
\* then either time.sleep(RATE_LIMIT - elapsed) starts or the call goes on
RateLimitEnter(t) ==
    /\ pc[t] = "rate_limit"
    /\ elapsed' = [elapsed EXCEPT ![t] = now - last_api_request]
    /\ IF MustWait(now - last_api_request)
       THEN /\ pc' = [pc EXCEPT ![t] = "rl_sleep"]
            /\ wakeAt' = [wakeAt EXCEPT ![t] = now + (RATE_LIMIT - (now - last_api_request))]
       ELSE /\ pc' = [pc EXCEPT ![t] = "rl_stamp"]
            /\ UNCHANGED wakeAt
    /\ UNCHANGED <<pure, store, now, cache, last_api_request, kind, arg, current_time, attempt, sentAt,
                   resp, history>>

\* time.sleep returns once the requested time has passed
RateLimitWake(t) ==
    /\ pc[t] = "rl_sleep"
    /\ now >= wakeAt[t]
    /\ pc' = [pc EXCEPT ![t] = "rl_stamp"]
    /\ UNCHANGED <<pure, store, now, cache, last_api_request, kind, arg, current_time, elapsed, attempt,
                   wakeAt, sentAt, resp, history>>

\* last_api_request = time.time(), and rate_limit returns
RateLimitStamp(t) ==
    /\ pc[t] = "rl_stamp"
    /\ last_api_request' = now
    /\ attempt' = [attempt EXCEPT ![t] = 0]
    /\ pc' = [pc EXCEPT ![t] = "get"]
    /\ rlLog' = [n |-> rlLog.n + 1,
                 first |-> IF rlLog.n = 0 THEN now ELSE rlLog.first,
                 prev |-> rlLog.last, last |-> now,
                 prevBy |-> rlLog.lastBy, lastBy |-> t]
    /\ UNCHANGED <<pure, store, now, cache, kind, arg, current_time, elapsed, wakeAt, sentAt, resp,
                   served, failure, outs, backoffs, fetchedAt, getLog, reqCount>>

\* ------------------------------------------------------------------------
\* make_fmp_request, lines 1579-1608, and the rest of the handler
\* ------------------------------------------------------------------------
CacheKey(t) == IF kind[t] = "quote" THEN StockKey(arg[t]) ELSE SearchKey(arg[t])

\* the handler from the return (or the exception) of make_fmp_request to its
\* response: reshaping, the cache write and the jsonify; its locals end here
Finish(t, fetched) ==
    LET f == IF kind[t] = "quote" THEN QuoteFinish(arg[t], fetched)
                                  ELSE SearchFinish(arg[t], fetched)
    IN /\ cache' = IF f.store THEN CachePut(cache, CacheKey(t), f.data, current_time[t])
                              ELSE cache
       /\ resp' = [resp EXCEPT ![t] = f.resp]
       /\ served' = [served EXCEPT ![t] = "api"]
       /\ failure' = [failure EXCEPT ![t] = f.failure]
       /\ fetchedAt' = IF kind[t] = "quote" /\ f.store
                       THEN [k \in DOMAIN fetchedAt \cup {CacheKey(t)} |->
                               IF k = CacheKey(t) THEN current_time[t] ELSE fetchedAt[k]]
                       ELSE fetchedAt
       /\ pc' = [pc EXCEPT ![t] = "idle"]
       /\ elapsed' = [elapsed EXCEPT ![t] = 0]
       /\ attempt' = [attempt EXCEPT ![t] = 0]
       /\ wakeAt' = [wakeAt EXCEPT ![t] = 0]
       /\ sentAt' = [sentAt EXCEPT ![t] = 0]

\* requests.get(url, params=params, timeout=API_TIMEOUT) is sent
HttpGet(t) ==
    /\ pc[t] = "get"
    /\ pc' = [pc EXCEPT ![t] = "wait"]
    /\ sentAt' = [sentAt EXCEPT ![t] = now]
    /\ getLog' = [prev |-> getLog.last, last |-> now,
                  prevBy |-> getLog.lastBy, lastBy |-> t]
    /\ UNCHANGED <<pure, store, now, cache, last_api_request, kind, arg, current_time, elapsed, attempt,
                   wakeAt, resp, served, failure, outs, backoffs, fetchedAt, rlLog,
                   reqCount>>

\* the last attempt taken one too late
LastAttemptLate(a) == a = MAX_RETRIES

\* if attempt == MAX_RETRIES - 1: raise e
LastAttempt(a) == a = MAX_RETRIES - 1

\* the except clause of the retry loop, lines 1601-1604
Except(t, outcome) ==
    /\ pc[t] = "wait"
    /\ outs' = [outs EXCEPT ![t] = Append(@, outcome)]
    /\ IF LastAttempt(attempt[t])
       THEN /\ Finish(t, [raised |-> TRUE, data |-> <<>>])
            /\ UNCHANGED backoffs
       ELSE /\ pc' = [pc EXCEPT ![t] = "retry_sleep"]
            /\ wakeAt' = [wakeAt EXCEPT ![t] = now + RETRY_DELAY]
            /\ backoffs' = [backoffs EXCEPT ![t] = @ + 1]
            /\ UNCHANGED <<cache, resp, served, failure, fetchedAt, elapsed, attempt,
                           sentAt>>
    /\ UNCHANGED <<pure, store, now, last_api_request, kind, arg, current_time, rlLog, getLog, reqCount>>

\* requests.get or raise_for_status or response.json() raises
GetFails(t) == Except(t, "fail")

\* the body is a dict with 'Error Message': raise Exception(...), line 1597
GetProviderError(t) == Except(t, "perr")

\* return data, line 1599
GetReturns(t, data) ==
    /\ pc[t] = "wait"
    /\ outs' = [outs EXCEPT ![t] = Append(@, "ok")]
    /\ Finish(t, [raised |-> FALSE, data |-> data])
    /\ UNCHANGED <<pure, store, now, last_api_request, kind, arg, current_time, backoffs, rlLog, getLog,
                   reqCount>>

\* time.sleep(RETRY_DELAY) returns and the for loop goes on; a loop that runs
\* out returns None, which the handlers treat as an empty payload
RetryWake(t) ==
    /\ pc[t] = "retry_sleep"
    /\ now >= wakeAt[t]
    /\ IF attempt[t] + 1 < MAX_RETRIES
       THEN /\ pc' = [pc EXCEPT ![t] = "get"]
            /\ attempt' = [attempt EXCEPT ![t] = @ + 1]
            /\ UNCHANGED <<cache, resp, served, failure, fetchedAt, elapsed, wakeAt,
                           sentAt>>
       ELSE Finish(t, [raised |-> FALSE, data |-> <<>>])
    /\ UNCHANGED <<pure, store, now, last_api_request, kind, arg, current_time, outs, backoffs, rlLog,
                   getLog, reqCount>>

\* ------------------------------------------------------------------------
\* Specifications
\* ------------------------------------------------------------------------
Payloads(t) == IF kind[t] = "quote" THEN QuotePayloads ELSE SearchPayloads

Starts(t) ==
    \/ \E symbol \in QuoteSymbols : StartQuote(t, symbol)
    \/ \E query \in SearchQueries : StartSearch(t, query)

Proceeds(t) ==
    \/ RateLimitEnter(t)
    \/ RateLimitWake(t)
    \/ RateLimitStamp(t)
    \/ HttpGet(t)
    \/ GetFails(t)
    \/ GetProviderError(t)
    \/ \E data \in Payloads(t) : GetReturns(t, data)
    \/ RetryWake(t)

\* requests handled one after another by one thread
Next ==
    \/ Tick
    \/ Starts(MainThread)
    \/ Proceeds(MainThread)
Spec == Init /\ [][Next]_vars

\* requests handled by interleaved threads
NextConc ==
    \/ TickConc
    \/ \E t \in Threads : reqCount < MaxConcRequests /\ Starts(t)
    \/ \E t \in Threads : Proceeds(t)
SpecConc == Init /\ [][NextConc]_vars

\* ------------------------------------------------------------------------
\* get_exchange_rate, lines 1861-1899, and api_status, lines 1756-1785.
\* ------------------------------------------------------------------------
\* number of requests in a run of the whole service
MaxServiceRequests == 2
\* default_rate = 1300.0
DefaultRate == 1300

\* response.json() of the exchange-rate upstream
RatePayloads ==
    {[rates |-> [KRW |-> 1350]],
     [rates |-> [KRW |-> 1300]],
     [rates |-> [USD |-> 1]],
     [base |-> "USD"]}
RateTrials ==
    {[kind |-> "rate", raised |-> TRUE, data |-> <<>>]}
        \cup {[kind |-> "rate", raised |-> FALSE, data |-> d] : d \in RatePayloads}

\* the inner try/except and the result dict: data['rates'] raises KeyError
\* when the payload has no 'rates', and the bare except takes the default
ExchangeRate(fetched) ==
    LET rate == IF fetched.raised \/ ~HasKey(fetched.data, "rates") THEN DefaultRate
                ELSE Get(fetched.data["rates"], "KRW", DefaultRate)
    IN [rate |-> rate, source |-> IF rate # DefaultRate THEN "API" ELSE "Default"]

\* get_exchange_rate up to requests.get: the cache lookup, and on a miss the
\* GET is sent
StartRate(t) ==
    /\ pc[t] = "idle"
    /\ BeginRequest(t)
    /\ kind' = [kind EXCEPT ![t] = "rate"]
    /\ arg' = [arg EXCEPT ![t] = <<>>]
    /\ current_time' = [current_time EXCEPT ![t] = now]
    /\ IF CacheFresh(cache, ExchangeRateKey, now)
       THEN /\ resp' = [resp EXCEPT ![t] =
                          [status |-> 200, error |-> FALSE,
                           source |-> cache[ExchangeRateKey].data.source,
                           body |-> cache[ExchangeRateKey].data]]
            /\ served' = [served EXCEPT ![t] = "cache"]
            /\ UNCHANGED <<pc, sentAt>>
       ELSE /\ resp' = [resp EXCEPT ![t] = NoResp]
            /\ served' = [served EXCEPT ![t] = "none"]
            /\ pc' = [pc EXCEPT ![t] = "rate_wait"]
            /\ sentAt' = [sentAt EXCEPT ![t] = now]
    /\ UNCHANGED <<pure, store, now, cache, last_api_request, elapsed, attempt, wakeAt>>

\* requests.get returns or raises; the result is stored and returned
RateFinish(t, fetched) ==
    /\ pc[t] = "rate_wait"
    /\ LET r == ExchangeRate(fetched)
       IN /\ cache' = CachePut(cache, ExchangeRateKey, r, current_time[t])
          /\ resp' = [resp EXCEPT ![t] =
                        [status |-> 200, error |-> FALSE, source |-> r.source, body |-> r]]
    /\ served' = [served EXCEPT ![t] = "api"]
    /\ pc' = [pc EXCEPT ![t] = "idle"]
    /\ sentAt' = [sentAt EXCEPT ![t] = 0]
    /\ UNCHANGED <<pure, store, now, last_api_request, kind, arg, current_time, elapsed,
                   attempt, wakeAt, failure, outs, backoffs, fetchedAt, rlLog, getLog,
                   reqCount>>

\* GET /api/status: 'cache_size': len(cache)
Status(t) ==
    /\ pc[t] = "idle"
    /\ BeginRequest(t)
    /\ kind' = [kind EXCEPT ![t] = "status"]
    /\ arg' = [arg EXCEPT ![t] = <<>>]
    /\ resp' = [resp EXCEPT ![t] =
                  [status |-> 200, error |-> FALSE, source |-> "",
                   body |-> [status |-> "ok", cache_size |-> Cardinality(DOMAIN cache)]]]
    /\ served' = [served EXCEPT ![t] = "none"]
    /\ UNCHANGED <<pure, store, now, cache, last_api_request, pc, current_time, elapsed,
                   attempt, wakeAt, sentAt>>

\* quote, search, exchange-rate and status requests, one after another
ServiceStarts(t) ==
    \/ Starts(t)
    \/ StartRate(t)
    \/ Status(t)
NextService ==
    \/ Tick
    \/ reqCount < MaxServiceRequests /\ ServiceStarts(MainThread)
    \/ Proceeds(MainThread)
    \/ \E fetched \in RateTrials : RateFinish(MainThread, fetched)
SpecService == Init /\ [][NextService]_vars

\* exchange-rate requests against an upstream whose answer is drawn when the
\* run starts
InitRate ==
    /\ Started
    /\ trial \in RateTrials
    /\ result = NoResult
NextRate ==
    \/ Tick
    \/ reqCount < MaxRequests /\ StartRate(MainThread)
    \/ RateFinish(MainThread, trial)
SpecRate == InitRate /\ [][NextRate]_vars

\* ------------------------------------------------------------------------
\* manage_strategy, lines 1905-1940. An id is the pair of its prefix and its
\* number: f"strategy_{n}" is <<"strategy_", n>>.
\* ------------------------------------------------------------------------
\* int(time.time()): the clock in whole seconds
Seconds(clock) == clock \div 10
\* f"strategy_{int(time.time())}"
StrategyId(clock) == <<"strategy_", Seconds(clock)>>

\* d[k] = v on a dict kept in insertion order: a new key goes to the end, an
\* old key keeps its place
DictPut(d, k, v) ==
    IF \E i \in 1 .. Len(d) : d[i].key = k
    THEN [i \in 1 .. Len(d) |-> IF d[i].key = k THEN [key |-> k, value |-> v] ELSE d[i]]
    ELSE Append(d, [key |-> k, value |-> v])
\* list(d.values())
DictValues(d) == [i \in 1 .. Len(d) |-> d[i].value]

\* {'id': strategy_id, 'name': data.get('name', ...), 'timestamp': ..., **data}:
\* the keys of data come last and replace the three before them
StrategyData(strategy_id, data, clock) ==
    [k \in {"id", "name", "timestamp"} \cup DOMAIN data |->
        IF k \in DOMAIN data THEN data[k]
        ELSE IF k = "id" THEN strategy_id
        ELSE IF k = "name" THEN "default"
        ELSE clock]

\* the JSON bodies of the POSTs; the first is the empty object
StrategyPayloads ==
    {[k \in {} |-> 0],
     [name |-> "one"],
     [name |-> "two", amount |-> 5],
     [amount |-> 7],
     [name |-> "one", id |-> <<"mine", 1>>],
     [name |-> "one", timestamp |-> 0]}

\* GET /api/strategy
StrategyGet(t) ==
    /\ pc[t] = "idle"
    /\ BeginRequest(t)
    /\ kind' = [kind EXCEPT ![t] = "strategy_get"]
    /\ arg' = [arg EXCEPT ![t] = <<>>]
    /\ resp' = [resp EXCEPT ![t] =
                  [status |-> 200, error |-> FALSE, source |-> "",
                   body |-> [strategies |-> DictValues(strategies),
                             count |-> Len(strategies)]]]
    /\ served' = [served EXCEPT ![t] = "none"]
    /\ UNCHANGED <<pure, store, now, cache, last_api_request, pc, current_time, elapsed,
                   attempt, wakeAt, sentAt>>

\* POST /api/strategy with the JSON body data
StrategyPost(t, data) ==
    /\ pc[t] = "idle"
    /\ BeginRequest(t)
    /\ kind' = [kind EXCEPT ![t] = "strategy_post"]
    /\ arg' = [arg EXCEPT ![t] = <<>>]
    /\ served' = [served EXCEPT ![t] = "none"]
    /\ IF DOMAIN data = {}
       THEN /\ resp' = [resp EXCEPT ![t] = ErrorResp(400)]
            /\ UNCHANGED <<strategies, posted>>
       ELSE LET strategy_id == StrategyId(now)
                strategy_data == StrategyData(strategy_id, data, now)
            IN /\ strategies' = DictPut(strategies, strategy_id, strategy_data)
               /\ posted' = posted + 1
               /\ resp' = [resp EXCEPT ![t] =
                             [status |-> 200, error |-> FALSE, source |-> "",
                              body |-> [strategy |-> strategy_data]]]
    /\ UNCHANGED <<pure, now, cache, last_api_request, pc, current_time, elapsed,
                   attempt, wakeAt, sentAt>>

\* strategy requests handled one after another
NextStrategy ==
    \/ Tick
    \/ \E data \in StrategyPayloads : StrategyPost(MainThread, data)
    \/ StrategyGet(MainThread)
SpecStrategy == Init /\ [][NextStrategy]_vars

\* ------------------------------------------------------------------------
\* search_stocks applied to drawn queries and upstream payloads
\* ------------------------------------------------------------------------
\* longest payload drawn item by item
MaxItems == 3
\* lengths of the two long payloads: past the [:10] of the response, and past
\* the 20 results at which the loop stops
SomeItems == 12
ManyItems == 21

ItemB == [symbol |-> <<"B">>, name |-> <<"L", "a", "b">>, exchangeShortName |-> "NYSE"]
ItemABLSE == [symbol |-> <<"A", "B">>, name |-> <<"A", "b", " ", "L">>,
              exchangeShortName |-> "LSE"]
ItemDot == [symbol |-> <<"A", ".", "B">>, name |-> <<"A", "b">>,
            exchangeShortName |-> "NYSE"]
ItemDigit == [symbol |-> <<"A", "1">>, name |-> <<"A", "b">>,
              exchangeShortName |-> "NASDAQ"]
ItemLong == [symbol |-> <<"A", "B", "L", "P", "A", "B", "L">>, name |-> <<"A", "b">>,
             exchangeShortName |-> "NYSE"]
ItemPool == {ItemAB, ItemABL, ItemABDup, ItemLSE, ItemNoName, ItemB, ItemABLSE, ItemDot,
             ItemDigit, ItemLong}

\* three-letter tickers, all different for k in 0 .. 63
TickerOf(k) == <<UpperChars[(k \div 16) + 1], UpperChars[((k \div 4) % 4) + 1],
                 UpperChars[(k % 4) + 1]>>
\* a payload of n items with different tickers, not in sorted order
LongPayload(n) ==
    [i \in 1 .. n |->
        [symbol |-> TickerOf((5 * i) % 64),
         name |-> <<"L", "a", "b">>,
         exchangeShortName |-> IF i % 3 = 0 THEN "AMEX"
                               ELSE IF i % 3 = 1 THEN "NYSE" ELSE "NASDAQ"]]

SeqsUpTo(S, n) == UNION {[1 .. k -> S] : k \in 0 .. n}
TrialQueries == {<<"a", "b">>, <<"A", "B">>, <<"p">>, <<"B">>}
TrialPayloads ==
    SeqsUpTo(ItemPool, MaxItems) \cup {LongPayload(SomeItems), LongPayload(ManyItems)}
SearchTrials ==
    {[kind |-> "search", query |-> q, items |-> p] : q \in TrialQueries, p \in TrialPayloads}

InitSearch ==
    /\ Started
    /\ trial \in SearchTrials
    /\ result = NoResult

\* search_stocks on a cache miss, make_fmp_request returning the payload: the
\* list search_fmp_stocks returns, the response, and the cache it leaves
SearchFresh ==
    /\ trial.kind = "search"
    /\ result.stage = 0
    /\ LET fetched == [raised |-> FALSE, data |-> trial.items]
           f == SearchFinish(trial.query, fetched)
       IN result' = [stage |-> 1,
                     reshaped |-> search_fmp_stocks(fetched),
                     fresh |-> f.resp,
                     stored |-> CachePut(<<>>, SearchKey(trial.query), f.data, now),
                     cached |-> NoResp]
    /\ UNCHANGED <<now, cache, last_api_request, locals, history, store, trial>>

\* search_stocks for the same query again, answered from that cache
SearchAgain ==
    /\ trial.kind = "search"
    /\ result.stage = 1
    /\ CacheFresh(result.stored, SearchKey(trial.query), now)
    /\ result' = [result EXCEPT
                    !.stage = 2,
                    !.cached = SearchCachedResp(result.stored[SearchKey(trial.query)].data)]
    /\ UNCHANGED <<now, cache, last_api_request, locals, history, store, trial>>

NextSearch ==
    \/ SearchFresh
    \/ SearchAgain
SpecSearch == InitSearch /\ [][NextSearch]_vars

\* ------------------------------------------------------------------------
\* get_stock_data applied to drawn symbols and upstream quotes
\* ------------------------------------------------------------------------
\* the upstream quote with the given optional fields and values
QuoteOf(fields, price, close, change, percent) ==
    [k \in {"symbol", "name", "price"} \cup fields |->
        CASE k = "symbol" -> <<"A", "B">>
          [] k = "name" -> <<"A", "b", " ", "L">>
          [] k = "price" -> price
          [] k = "previousClose" -> close
          [] k = "change" -> change
          [] k = "changesPercentage" -> percent]
TrialQuotes ==
    {QuoteOf(fields, price, close, change, percent) :
        fields \in SUBSET {"previousClose", "change", "changesPercentage"},
        price \in {90, 110}, close \in {0, 100},
        change \in {0 - 10, 7, 10}, percent \in {0 - 10, 3, 10}}
QuoteTrials ==
    {[kind |-> "quote", symbol |-> s, quote |-> q] : s \in QuoteSymbols, q \in TrialQuotes}

InitQuote ==
    /\ Started
    /\ trial \in QuoteTrials
    /\ result = NoResult

\* get_stock_data on a cache miss, make_fmp_request returning [quote]: the
\* response and the cache it leaves
QuoteFresh ==
    /\ trial.kind = "quote"
    /\ result.stage = 0
    /\ LET f == QuoteFinish(trial.symbol, [raised |-> FALSE, data |-> <<trial.quote>>])
       IN result' = [stage |-> 1,
                     fresh |-> f.resp,
                     stored |-> IF f.store
                                THEN CachePut(<<>>, StockKey(trial.symbol), f.data, now)
                                ELSE <<>>,
                     cached |-> NoResp]
    /\ UNCHANGED <<now, cache, last_api_request, locals, history, store, trial>>

\* get_stock_data for the same symbol again, answered from that cache
QuoteAgain ==
    /\ trial.kind = "quote"
    /\ result.stage = 1
    /\ CacheFresh(result.stored, StockKey(trial.symbol), now)
    /\ result' = [result EXCEPT
                    !.stage = 2,
                    !.cached = QuoteCachedResp(result.stored[StockKey(trial.symbol)].data)]
    /\ UNCHANGED <<now, cache, last_api_request, locals, history, store, trial>>

NextQuote ==
    \/ QuoteFresh
    \/ QuoteAgain
SpecQuote == InitQuote /\ [][NextQuote]_vars

\* ------------------------------------------------------------------------
\* The cache keys of the three handlers for drawn route arguments
\* ------------------------------------------------------------------------
\* longest route argument drawn
MaxArgLen == 2
ArgChars == {"A", "a", "B", "b", "_"}
TrialArgs == SeqsUpTo(ArgChars, MaxArgLen)
KeyTrials == {[kind |-> "keys", first |-> a, second |-> b] : a, b \in TrialArgs}

InitKeys ==
    /\ Started
    /\ trial \in KeyTrials
    /\ result = NoResult

\* the cache_key each handler builds for the two arguments
BuildKeys ==
    /\ trial.kind = "keys"
    /\ result.stage = 0
    /\ result' = [stage |-> 1,
                  quoteFirst |-> StockKey(trial.first),
                  quoteSecond |-> StockKey(trial.second),
                  searchFirst |-> SearchKey(trial.first),
                  searchSecond |-> SearchKey(trial.second),
                  rate |-> ExchangeRateKey,
                  stored |-> <<>>,
                  quoteServed |-> "", searchServed |-> "", rateServed |-> ""]
    /\ UNCHANGED <<now, cache, last_api_request, locals, history, store, trial>>

\* what a lookup under the key finds in the cache: the data, or a miss
Lookup(c, key, current) == IF CacheFresh(c, key, current) THEN c[key].data ELSE "miss"

\* the three handlers store under the keys of the first argument; then the
\* lookups of the handlers for the second argument
StoreAndLookup ==
    /\ trial.kind = "keys"
    /\ result.stage = 1
    /\ LET c1 == CachePut(<<>>, result.quoteFirst, "quote", now)
           c2 == CachePut(c1, result.searchFirst, "search", now)
           c3 == CachePut(c2, result.rate, "rate", now)
       IN result' = [result EXCEPT
                       !.stage = 2,
                       !.stored = c3,
                       !.quoteServed = Lookup(c3, result.quoteSecond, now),
                       !.searchServed = Lookup(c3, result.searchSecond, now),
                       !.rateServed = Lookup(c3, result.rate, now)]
    /\ UNCHANGED <<now, cache, last_api_request, locals, history, store, trial>>

NextKeys ==
    \/ BuildKeys
    \/ StoreAndLookup
SpecKeys == InitKeys /\ [][NextKeys]_vars

\* ------------------------------------------------------------------------
\* The historical series. api/index.py has no such route: this part follows
\* the specification's "Historical series" (normalize each bar, missing
\* fields default to 0, sort descending by date). A date "2024-01-02" is the
\* tuple <<2024, 1, 2>>: ISO dates compare as these tuples do.
\* ------------------------------------------------------------------------
\* longest upstream series drawn
MaxBars == 3

\* the bar {date, open, high, low, close, volume, adjClose} of an upstream bar
NormalizeBar(raw) ==
    [date |-> raw.date,
     open |-> Get(raw, "open", 0),
     high |-> Get(raw, "high", 0),
     low |-> Get(raw, "low", 0),
     close |-> Get(raw, "close", 0),
     volume |-> Get(raw, "volume", 0),
     adjClose |-> Get(raw, "adjClose", 0)]

\* the sort the other way round: oldest bar first
RECURSIVE InsertByDateAscending(_, _)
InsertByDateAscending(x, sorted) ==
    IF sorted = <<>> THEN <<x>>
    ELSE IF LexLess(x.date, Head(sorted).date)
         THEN <<x>> \o sorted
         ELSE <<Head(sorted)>> \o InsertByDateAscending(x, Tail(sorted))

\* x goes in front of the first bar with an earlier date
RECURSIVE InsertByDate(_, _)
InsertByDate(x, sorted) ==
    IF sorted = <<>> THEN <<x>>
    ELSE IF LexLess(Head(sorted).date, x.date)
         THEN <<x>> \o sorted
         ELSE <<Head(sorted)>> \o InsertByDate(x, Tail(sorted))

\* sort descending by date
RECURSIVE SortByDate(_)
SortByDate(bars) ==
    IF bars = <<>> THEN <<>>
    ELSE InsertByDate(bars[Len(bars)], SortByDate(SubSeq(bars, 1, Len(bars) - 1)))

\* {symbol, period, data: [bar], count, source}
HistoryResponse(symbol, period, raw) ==
    LET data == SortByDate([i \in 1 .. Len(raw) |-> NormalizeBar(raw[i])])
    IN [symbol |-> symbol, period |-> period, data |-> data, count |-> Len(data),
        source |-> "fmp_api"]

BarPool ==
    {[date |-> <<2024, 1, 2>>, close |-> 100],
     [date |-> <<2024, 1, 3>>, close |-> 110],
     [date |-> <<2023, 12, 31>>, close |-> 90],
     [date |-> <<2024, 1, 3>>, close |-> 111, volume |-> 5],
     [date |-> <<2024, 2, 1>>]}
HistoryTrials ==
    {[kind |-> "history", symbol |-> <<"A", "B">>, period |-> p, bars |-> b] :
        p \in {"1mo", "1y"}, b \in SeqsUpTo(BarPool, MaxBars)}

InitHistory ==
    /\ Started
    /\ trial \in HistoryTrials
    /\ result = NoResult

\* the historical-series operation on the upstream bars
History ==
    /\ trial.kind = "history"
    /\ result.stage = 0
    /\ result' = [stage |-> 1,
                  resp |-> HistoryResponse(trial.symbol, trial.period, trial.bars)]
    /\ UNCHANGED <<now, cache, last_api_request, locals, history, store, trial>>

NextHistory == History
SpecHistory == InitHistory /\ [][NextHistory]_vars

\* ------------------------------------------------------------------------
\* Properties
\* ------------------------------------------------------------------------
\* the thread's request has been answered
Done(t) == kind[t] # "none" /\ pc[t] = "idle"
\* the thread's request is inside make_fmp_request
InFlight(t) == pc[t] # "idle"
\* HTTP GETs the thread's request has sent so far
Calls(t) == Len(outs[t]) + (IF pc[t] = "wait" THEN 1 ELSE 0)
\* the entry for the thread's key exists and is younger than 300 s when the
\* request reads the clock
EntryYoung(t) ==
    /\ CacheKey(t) \in DOMAIN cache
    /\ current_time[t] - cache[CacheKey(t)].time < CACHE_DURATION

\* C1: a quote or search request is answered from the cache if and only if
\* an entry for its key exists and is strictly younger than 300 s; a request
\* that finds the entry at age 300 s or more goes to the upstream fetcher.
\* (With one thread the cache does not change between the lookup and the
\* states this reads: an answer from the cache, or the entry to rate_limit.)
C1_HitIffYoung ==
    \A t \in Threads :
        /\ (Done(t) /\ served[t] = "cache") => EntryYoung(t)
        /\ pc[t] = "rate_limit" => ~EntryYoung(t)
        /\ (kind[t] # "none" /\ ~IsBlank(arg[t]))
              => (pc[t] # "idle" \/ served[t] \in {"cache", "api"})

\* a request that found the entry at age exactly 300 s and went upstream
C1_Witness ==
    \E t \in Threads :
        /\ pc[t] = "rate_limit"
        /\ CacheKey(t) \in DOMAIN cache
        /\ current_time[t] - cache[CacheKey(t)].time = CACHE_DURATION

\* the thread's quote started less than 300 s after the start of a completed
\* quote for the same symbol that fetched and stored it
InQuoteWindow(t) ==
    /\ kind[t] = "quote"
    /\ CacheKey(t) \in DOMAIN fetchedAt
    /\ current_time[t] - fetchedAt[CacheKey(t)] < CACHE_DURATION

\* C2: after a quote for a symbol has completed successfully, a quote for the
\* same symbol that starts within the TTL window (counted from the clock
\* reading of the first request) never enters make_fmp_request: it sends no
\* HTTP GET.
C2_SecondQuoteNoUpstream ==
    \A t \in Threads : ~(InFlight(t) /\ InQuoteWindow(t))

\* a second quote, later than the first and for the same key, answered with
\* no GET
C2_Witness ==
    \E t \in Threads :
        /\ Done(t) /\ InQuoteWindow(t)
        /\ current_time[t] > fetchedAt[CacheKey(t)]
        /\ served[t] = "cache" /\ Calls(t) = 0

\* C3: a response served from the cache carries source "cache" and a response
\* computed from an upstream call carries the API source tag.
C3_SourceTags ==
    \A t \in Threads :
        (Done(t) /\ resp[t].status = 200) =>
            /\ served[t] = "cache" => resp[t].source = "cache"
            /\ served[t] = "api" => resp[t].source = "fmp_api"

AllFail(o) == \A i \in 1 .. Len(o) : o[i] = "fail"
\* the transport failed k times and then answered
FailsThenOk(o) ==
    /\ Len(o) >= 1
    /\ o[Len(o)] = "ok"
    /\ \A i \in 1 .. Len(o) - 1 : o[i] = "fail"

\* C4: with 2 attempts, k < 2 transport failures followed by an answer make
\* make_fmp_request return after exactly k + 1 GETs, and a transport that
\* fails every time makes it raise after exactly 2 GETs.
C4_RetryCount ==
    \A t \in Threads :
        /\ Calls(t) <= MAX_RETRIES
        /\ FailsThenOk(outs[t]) =>
              /\ Done(t) /\ failure[t] # "fetch"
              /\ Calls(t) = Len(outs[t])
        /\ (AllFail(outs[t]) /\ Len(outs[t]) = MAX_RETRIES) =>
              /\ Done(t) /\ failure[t] = "fetch"
              /\ Calls(t) = MAX_RETRIES
        /\ (AllFail(outs[t]) /\ Done(t) /\ served[t] = "api") =>
              /\ Len(outs[t]) = MAX_RETRIES
              /\ failure[t] = "fetch"

\* one transport failure, then an answer: returned after 2 GETs
C4_Witness ==
    \E t \in Threads :
        /\ outs[t] = <<"fail", "ok">>
        /\ Done(t) /\ failure[t] # "fetch"

\* C5: a provider error ('Error Message' in a 2xx body) is not retried: the
\* fetch fails after that one GET and no backoff sleep happens.
C5_ProviderErrorNotRetried ==
    \A t \in Threads :
        (\E i \in 1 .. Len(outs[t]) : outs[t][i] = "perr") =>
            /\ Len(outs[t]) = 1
            /\ backoffs[t] = 0
            /\ Done(t) /\ failure[t] = "fetch"

\* C6: a request whose fetch or reshaping failed leaves the cache as it was.
C6_NoCacheWriteOnFailure ==
    [][\A t \in Threads :
          (pc[t] # "idle" /\ pc'[t] = "idle" /\ failure'[t] \in {"fetch", "reshape"})
             => cache' = cache]_vars

\* C7: a request whose fetch or reshaping failed is answered with an error
\* result, never with a success-shaped one.
C7_FailureIsErrorResult ==
    \A t \in Threads :
        (Done(t) /\ failure[t] \in {"fetch", "reshape"}) =>
            /\ resp[t].error
            /\ resp[t].status >= 400

\* C8: with one thread, a rate_limit call returns at least 0.3 s after the
\* previous one returned, n calls take at least (n - 1) * 0.3 s, and a call
\* sleeps only when less than 0.3 s have passed since the previous return.
\* (The handler enters rate_limit at the clock reading current_time: the
\* statements between two blocking calls take no time.)
C8_RateLimitSpacing ==
    /\ rlLog.prev # None => rlLog.last - rlLog.prev >= RATE_LIMIT
    /\ rlLog.n >= 1 => rlLog.last - rlLog.first >= (rlLog.n - 1) * RATE_LIMIT
    /\ \A t \in Threads :
          pc[t] = "rl_sleep" => (rlLog.n >= 1 /\ current_time[t] - rlLog.last < RATE_LIMIT)

\* three calls, the later two of which slept, in exactly 0.6 s
C8_Witness == rlLog.n = 3 /\ rlLog.last - rlLog.first = 2 * RATE_LIMIT

\* C9: any two HTTP GETs sent to the upstream, retries included, are at least
\* 0.3 s apart.
C9_GetSpacing == getLog.prev # None => getLog.last - getLog.prev >= RATE_LIMIT

\* C10: with interleaved threads, rate_limit calls of different requests
\* return at least 0.3 s apart.
C10_ConcurrentSpacing ==
    (rlLog.prev # None /\ rlLog.prevBy # rlLog.lastBy)
        => rlLog.last - rlLog.prev >= RATE_LIMIT

\* the string is empty or holds nothing but spaces
OnlySpaces(s) == \A i \in 1 .. Len(s) : s[i] = " "

\* C11: a search whose query is empty or only whitespace is answered with the
\* 400 validation error in the step that starts it: it never enters rate_limit
\* or make_fmp_request, no HTTP GET is sent for it, and the cache and
\* last_api_request are what they were before the request.
C11_BlankQueryRejected ==
    [][\A t \in Threads :
          (reqCount' = reqCount + 1 /\ kind'[t] = "search"
              /\ OnlySpaces(arg'[t]))
             => /\ pc'[t] = "idle"
                /\ resp'[t].status = 400 /\ resp'[t].error
                /\ outs'[t] = <<>>
                /\ cache' = cache
                /\ last_api_request' = last_api_request
                /\ rlLog' = rlLog /\ getLog' = getLog]_vars

\* a blank search rejected while the cache holds entries and rate_limit has
\* stamped its timestamp
C11_Witness ==
    \E t \in Threads :
        /\ Done(t) /\ kind[t] = "search" /\ Len(arg[t]) > 0 /\ OnlySpaces(arg[t])
        /\ resp[t].status = 400 /\ Calls(t) = 0
        /\ cache # <<>> /\ last_api_request > 0

\* C12: a quote whose upstream payload is an empty array is answered with the
\* 404 not-found error (not the 500 of a failed fetch), and afterwards the
\* cache holds no entry for the symbol that a lookup would serve: the next
\* quote for the symbol goes upstream again.
C12_EmptyQuoteNotFound ==
    \A t \in Threads :
        (Done(t) /\ kind[t] = "quote" /\ failure[t] = "notfound") =>
            /\ resp[t].status = 404 /\ resp[t].error
            /\ resp[t].body = NoBody
            /\ ~(StockKey(arg[t]) \in DOMAIN cache
                   /\ now - cache[StockKey(arg[t])].time < CACHE_DURATION)

\* an empty payload answered 404 after an earlier request had stored entries
C12_Witness ==
    \E t \in Threads :
        /\ Done(t) /\ kind[t] = "quote" /\ failure[t] = "notfound"
        /\ outs[t] = <<"ok">>
        /\ resp[t].status = 404
        /\ cache # <<>>

\* the search function has been applied to the drawn input
Searched == trial.kind = "search" /\ result.stage >= 1
\* index of the first upstream item that carries the symbol
FirstIndex(items, symbol) ==
    CHOOSE i \in 1 .. Len(items) :
        /\ items[i].symbol = symbol
        /\ \A j \in 1 .. i - 1 : items[j].symbol # symbol
NoRepeatedSymbol(list) ==
    \A k, l \in 1 .. Len(list) : k < l => list[k].symbol # list[l].symbol

\* C13: the list search_fmp_stocks returns holds at most one entry per symbol;
\* each entry carries the name and exchange of the first upstream item with
\* its symbol; and the entries stand in the order of those first items. The
\* sorted list and the response's results hold no symbol twice either.
C13_DedupFirstWins ==
    Searched =>
        LET items == trial.items
            out == result.reshaped
        IN /\ NoRepeatedSymbol(out)
           /\ \A k \in 1 .. Len(out) :
                 /\ \E i \in 1 .. Len(items) : items[i].symbol = out[k].symbol
                 /\ LET first == items[FirstIndex(items, out[k].symbol)]
                    IN /\ out[k].name = first.name
                       /\ out[k].exchange = first.exchangeShortName
           /\ \A k, l \in 1 .. Len(out) :
                 k < l => FirstIndex(items, out[k].symbol) < FirstIndex(items, out[l].symbol)
           /\ NoRepeatedSymbol(result.fresh.body.results)
           /\ NoRepeatedSymbol(result.stored[SearchKey(trial.query)].data)

\* a payload with the same symbol twice under different names, both on an
\* allowed exchange, reshaped to two entries or more
C13_Witness ==
    /\ Searched
    /\ Len(result.reshaped) >= 2
    /\ \E i, j \in 1 .. Len(trial.items) :
          /\ i < j
          /\ trial.items[i].symbol = trial.items[j].symbol
          /\ HasKey(trial.items[i], "name") /\ HasKey(trial.items[j], "name")
          /\ trial.items[i].name # trial.items[j].name
          /\ trial.items[i].exchangeShortName \in {"NYSE", "NASDAQ", "AMEX"}
          /\ trial.items[j].exchangeShortName \in {"NYSE", "NASDAQ", "AMEX"}
          /\ \E k \in 1 .. Len(result.reshaped) :
                result.reshaped[k].symbol = trial.items[i].symbol

\* every entry of the list is on an allowed exchange and stands for an
\* upstream item with that symbol on that exchange
OnAllowList(list, items) ==
    \A k \in 1 .. Len(list) :
        /\ list[k].exchange \in {"NYSE", "NASDAQ", "AMEX"}
        /\ \E i \in 1 .. Len(items) :
              /\ items[i].symbol = list[k].symbol
              /\ items[i].exchangeShortName = list[k].exchange

\* C14: every entry of a search response, computed from the upstream payload
\* or read back from the cache, and every entry stored in the cache, is on
\* NYSE, NASDAQ or AMEX: an upstream item on another exchange is in no output.
C14_AllowListOnly ==
    Searched =>
        /\ OnAllowList(result.fresh.body.results, trial.items)
        /\ OnAllowList(result.stored[SearchKey(trial.query)].data, trial.items)
        /\ result.stage = 2 => OnAllowList(result.cached.body.results, trial.items)

\* a payload with an LSE item and an allowed one, answered from the cache
C14_Witness ==
    /\ Searched
    /\ result.stage = 2
    /\ \E i \in 1 .. Len(trial.items) : trial.items[i].exchangeShortName = "LSE"
    /\ Len(result.cached.body.results) >= 1
    /\ result.cached.source = "cache"

\* the symbol equals the query, letter case aside
IsExact(e, q) == Lower(e.symbol) = Lower(q)
ExactFirst(list, q) ==
    \A i, j \in 1 .. Len(list) : i < j => ~(IsExact(list[j], q) /\ ~IsExact(list[i], q))

\* C15: in the sorted list, in the results of the response computed from it
\* and in the results read back from the cache, no entry whose symbol differs
\* from the query stands before an entry whose symbol equals it (letter case
\* aside).
C15_ExactMatchFirst ==
    Searched =>
        /\ ExactFirst(result.stored[SearchKey(trial.query)].data, trial.query)
        /\ ExactFirst(result.fresh.body.results, trial.query)
        /\ result.stage = 2 => ExactFirst(result.cached.body.results, trial.query)

\* the exact match was not the first item upstream and is the first result
C15_Witness ==
    /\ Searched
    /\ Len(result.fresh.body.results) >= 2
    /\ ~IsExact(result.reshaped[1], trial.query)
    /\ IsExact(result.fresh.body.results[1], trial.query)

\* the first four criteria of the sort, 0 for an entry that meets one
Criteria(e, q) ==
    <<IF Lower(e.symbol) = Lower(q) THEN 0 ELSE 1,
      IF StartsWith(Lower(e.symbol), Lower(q)) THEN 0 ELSE 1,
      IF StartsWith(Lower(e.name), Lower(q)) THEN 0 ELSE 1,
      IF e.exchange \in {"NASDAQ", "NYSE"} THEN 0 ELSE 1>>
Codes(symbol) == [i \in 1 .. Len(symbol) |-> CharCode(symbol[i])]
\* the four criteria, then the symbol
AlphabeticalKey(e, q) == Criteria(e, q) \o Codes(e.symbol)
\* the four criteria, then the symbol's length, then the symbol
LengthKey(e, q) == Criteria(e, q) \o <<Len(e.symbol)>> \o Codes(e.symbol)
OrderedBy(list, q, Key(_, _)) ==
    \A i, j \in 1 .. Len(list) : i < j => ~LexLess(Key(list[j], q), Key(list[i], q))

\* C16, as claimed: the sorted list is ordered by exact match, symbol starts
\* with the query, name starts with the query, NASDAQ/NYSE membership and then
\* the symbol alphabetically, nothing coming between.
C16_AlphabeticalTieBreak ==
    Searched =>
        OrderedBy(result.stored[SearchKey(trial.query)].data, trial.query, AlphabeticalKey)

\* C16, amended: the sorted list, the results computed from it and the results
\* read back from the cache are ordered by exact match, symbol starts with the
\* query, name starts with the query, NASDAQ/NYSE membership, then the length
\* of the symbol (shorter first), then the symbol alphabetically.
C16_LengthBeforeAlphabet ==
    Searched =>
        /\ OrderedBy(result.stored[SearchKey(trial.query)].data, trial.query, LengthKey)
        /\ OrderedBy(result.fresh.body.results, trial.query, LengthKey)
        /\ result.stage = 2 => OrderedBy(result.cached.body.results, trial.query, LengthKey)

\* two results that agree on the four criteria, the shorter symbol first
\* although it is the later one alphabetically
C16_Witness ==
    /\ Searched
    /\ \E i, j \in 1 .. Len(result.fresh.body.results) :
          LET a == result.fresh.body.results[i]
              b == result.fresh.body.results[j]
          IN /\ i < j
             /\ Criteria(a, trial.query) = Criteria(b, trial.query)
             /\ Len(a.symbol) < Len(b.symbol)
             /\ LexLess(Codes(b.symbol), Codes(a.symbol))

\* item i of the payload survives deduplication and filtering
Survives(items, i) ==
    /\ \A j \in 1 .. i - 1 : items[j].symbol # items[i].symbol
    /\ HasKey(items[i], "exchangeShortName")
    /\ items[i].exchangeShortName \in {"NYSE", "NASDAQ", "AMEX"}
    /\ SymbolPatternOk(items[i].symbol)
SurvivorsBefore(items, i) == Cardinality({j \in 1 .. i - 1 : Survives(items, j)})
\* the reshaping raises: it meets a surviving item without a name before it
\* has collected 20 entries
Raises(items) ==
    \E i \in 1 .. Len(items) :
        /\ SurvivorsBefore(items, i) < 20
        /\ Survives(items, i)
        /\ ~HasKey(items[i], "name")
\* the entries of the first `room` surviving items from item i on
RECURSIVE EntriesFrom(_, _, _)
EntriesFrom(items, i, room) ==
    IF i > Len(items) \/ room = 0 THEN <<>>
    ELSE IF Survives(items, i)
         THEN <<SearchEntry(items[i], items[i].symbol, items[i].exchangeShortName)>>
              \o EntriesFrom(items, i + 1, room - 1)
         ELSE EntriesFrom(items, i + 1, room)
FirstTen(list) == [k \in 1 .. (IF Len(list) < 10 THEN Len(list) ELSE 10) |-> list[k]]

\* C17, as claimed: when n items survive deduplication and filtering, results
\* is the first min(10, n) entries of the sorted list of all n and count is n.
C17_CountAllSurvivors ==
    (Searched /\ ~Raises(trial.items)) =>
        LET all == SortResults(EntriesFrom(trial.items, 1, Len(trial.items)), trial.query)
        IN /\ result.fresh.body.results = FirstTen(all)
           /\ result.fresh.body.count = Len(all)

\* C17, amended: the sorted list is the sort of the first min(20, n) surviving
\* items in upstream order (of none when the reshaping raises); results is the
\* first 10 entries of that sorted list and count is its length, in the
\* response computed from the payload and in the one read back from the cache.
C17_CountKeptSurvivors ==
    Searched =>
        LET kept == IF Raises(trial.items) THEN <<>> ELSE EntriesFrom(trial.items, 1, 20)
            sorted == result.stored[SearchKey(trial.query)].data
        IN /\ sorted = SortResults(kept, trial.query)
           /\ result.fresh.body.results = FirstTen(sorted)
           /\ result.fresh.body.count = Len(sorted)
           /\ result.stage = 2 =>
                 /\ result.cached.body.results = FirstTen(sorted)
                 /\ result.cached.body.count = Len(sorted)

\* 21 surviving items: 10 results, count 20, and a result that was not among
\* the first 10 upstream
C17_Witness ==
    /\ Searched
    /\ ~Raises(trial.items)
    /\ Len(EntriesFrom(trial.items, 1, Len(trial.items))) > 20
    /\ Len(result.fresh.body.results) = 10
    /\ result.fresh.body.count = 20
    /\ \E k \in 1 .. 10 : \A i \in 1 .. 10 :
          result.fresh.body.results[k].symbol # trial.items[i].symbol

\* the quote function has been applied to the drawn input and returned a quote
Quoted == trial.kind = "quote" /\ result.stage >= 1 /\ result.fresh.status = 200

\* C18, as claimed: the returned change is price - previousClose, and the
\* returned changePercent is (price - previousClose) / previousClose * 100
\* when previousClose is present and not 0, and 0 otherwise, whatever the
\* other upstream fields are.
C18_ChangeFromPreviousClose ==
    Quoted =>
        LET q == trial.quote
            body == result.fresh.body
        IN /\ ("previousClose" \in DOMAIN q) => body.change = q.price - q.previousClose
           /\ body.changePercent =
                 IF "previousClose" \in DOMAIN q /\ q.previousClose # 0
                 THEN ((q.price - q.previousClose) * 100) \div q.previousClose
                 ELSE 0

\* the upstream field, 0 when the quote has none
FieldOrZero(q, k) == IF k \in DOMAIN q THEN q[k] ELSE 0

\* C18, amended: the returned change is the upstream quote's 'change' field
\* and the returned changePercent its 'changesPercentage' field, each 0 when
\* the field is absent, whatever price and previousClose are; a quote read
\* back from the cache carries the same two values.
C18_ChangeFromUpstream ==
    Quoted =>
        /\ result.fresh.body.change = FieldOrZero(trial.quote, "change")
        /\ result.fresh.body.changePercent = FieldOrZero(trial.quote, "changesPercentage")
        /\ result.stage = 2 =>
              /\ result.cached.body.change = FieldOrZero(trial.quote, "change")
              /\ result.cached.body.changePercent =
                    FieldOrZero(trial.quote, "changesPercentage")

\* price 110 and previousClose 100 with upstream change 7 and percentage 3:
\* the quote returned carries 7 and 3
C18_Witness ==
    /\ Quoted
    /\ "previousClose" \in DOMAIN trial.quote
    /\ trial.quote.price = 110 /\ trial.quote.previousClose = 100
    /\ result.fresh.body.change = 7
    /\ result.fresh.body.changePercent = 3

\* the keys of the drawn arguments have been built
Keyed == trial.kind = "keys" /\ result.stage >= 1
\* the two strings differ in letter case at most
SameButCase(a, b) ==
    /\ Len(a) = Len(b)
    /\ \A i \in 1 .. Len(a) :
          \/ a[i] = b[i]
          \/ {a[i], b[i]} \in {{"A", "a"}, {"B", "b"}, {"L", "l"}, {"P", "p"}}

\* C19: for any two route arguments, a quote key, a search key and the
\* exchange-rate key are three different keys, so entries of the three kinds
\* stored in one cache stay three entries; and two arguments that differ only
\* in letter case give the same quote key and the same search key, so the
\* lookup for the second finds the entry stored for the first.
C19_KeysNamespaced ==
    Keyed =>
        /\ {result.quoteFirst, result.quoteSecond}
              \cap {result.searchFirst, result.searchSecond} = {}
        /\ result.rate \notin {result.quoteFirst, result.quoteSecond,
                                result.searchFirst, result.searchSecond}
        /\ SameButCase(trial.first, trial.second) =>
              /\ result.quoteFirst = result.quoteSecond
              /\ result.searchFirst = result.searchSecond
        /\ result.stage = 2 =>
              /\ Cardinality(DOMAIN result.stored) = 3
              /\ result.quoteServed \in {"quote", "miss"}
              /\ result.searchServed \in {"search", "miss"}
              /\ result.rateServed = "rate"
              /\ SameButCase(trial.first, trial.second) =>
                    /\ result.quoteServed = "quote"
                    /\ result.searchServed = "search"

\* two different arguments that differ only in letter case, the second served
\* the entries stored for the first
C19_Witness ==
    /\ Keyed
    /\ result.stage = 2
    /\ trial.first # trial.second
    /\ Len(trial.first) >= 2
    /\ SameButCase(trial.first, trial.second)
    /\ result.quoteServed = "quote"
    /\ result.searchServed = "search"

\* date a is earlier than date b
Earlier(a, b) ==
    \/ a[1] < b[1]
    \/ a[1] = b[1] /\ a[2] < b[2]
    \/ a[1] = b[1] /\ a[2] = b[2] /\ a[3] < b[3]
\* how many bars of the series have this date and this close
Occurrences(bars, date, close) ==
    Cardinality({i \in 1 .. Len(bars) :
                    bars[i].date = date /\ Get(bars[i], "close", 0) = close})

\* C20: the historical-series operation, given a symbol, a period and the
\* upstream bars in any order, returns the same bars with no bar standing
\* before a bar of a later date.
C20_HistoryDescending ==
    (trial.kind = "history" /\ result.stage >= 1) =>
        LET data == result.resp.data IN
        /\ result.resp.count = Len(trial.bars)
        /\ Len(data) = Len(trial.bars)
        /\ \A i, j \in 1 .. Len(data) : i < j => ~Earlier(data[i].date, data[j].date)
        /\ \A i \in 1 .. Len(data) :
              Occurrences(data, data[i].date, data[i].close)
                = Occurrences(trial.bars, data[i].date, data[i].close)

\* upstream bars of 2024-01-02 and then 2024-01-03, returned as 2024-01-03
\* and then 2024-01-02
C20_Witness ==
    /\ trial.kind = "history" /\ result.stage >= 1
    /\ Len(trial.bars) = 2
    /\ trial.bars[1].date = <<2024, 1, 2>> /\ trial.bars[2].date = <<2024, 1, 3>>
    /\ result.resp.data[1].date = <<2024, 1, 3>>
    /\ result.resp.data[2].date = <<2024, 1, 2>>

\* C21: whenever a step stores an entry in the cache, the entry's 'time' is
\* the clock reading of that step (so the entry is served for a full 300 s
\* from the store on), and the entry replaces the key's earlier one.
C21_StoredAtIsStoreTime ==
    [][\A k \in DOMAIN cache' :
          (k \notin DOMAIN cache \/ cache'[k] # cache[k]) => cache'[k].time = now']_vars

\* C23: a quote or search answered from the cache is answered in the step
\* that starts it, and that step leaves the cache (the hit entry's 'time'
\* included) and last_api_request as they were and sends no HTTP GET.
C23_HitChangesNothing ==
    [][\A t \in Threads :
          (reqCount' = reqCount + 1 /\ pc[t] = "idle" /\ served'[t] = "cache")
             => /\ pc'[t] = "idle"
                /\ resp'[t].status = 200
                /\ outs'[t] = <<>>
                /\ cache' = cache
                /\ last_api_request' = last_api_request
                /\ rlLog' = rlLog /\ getLog' = getLog]_vars

\* a quote answered from an entry that was stored at an earlier clock reading
C23_Witness ==
    \E t \in Threads :
        /\ Done(t) /\ kind[t] = "quote" /\ served[t] = "cache"
        /\ resp[t].status = 200
        /\ cache[StockKey(arg[t])].time < current_time[t]
        /\ last_api_request > 0

\* C24: with interleaved threads, two requests for the same key never have
\* an HTTP GET outstanding at the same time: of two overlapping requests for
\* an uncached key only one goes to the upstream.
C24_OneFetchPerKey ==
    \A t, u \in Threads :
        (t # u /\ pc[t] = "wait" /\ pc[u] = "wait") => CacheKey(t) # CacheKey(u)

\* C25: with interleaved threads, no step stores an entry whose 'time' is
\* later than the clock or earlier than the 'time' of the entry it replaces.
C25_StoredAtMonotone ==
    [][\A k \in DOMAIN cache' :
          /\ cache'[k].time <= now'
          /\ k \in DOMAIN cache => cache'[k].time >= cache[k].time]_vars

\* C29: the response of a search answered from the cache has the results
\* list and the count of the response of the search that stored the entry;
\* the two differ in their source tag.
C29_CachedEqualsFresh ==
    (Searched /\ result.stage = 2) =>
        /\ result.cached.body.results = result.fresh.body.results
        /\ result.cached.body.count = result.fresh.body.count
        /\ result.cached.status = result.fresh.status
        /\ result.fresh.source = "fmp_api"
        /\ result.cached.source = "cache"

\* a stored list of more than 10 entries, cut to 10 in both responses
C29_Witness ==
    /\ Searched
    /\ result.stage = 2
    /\ result.fresh.body.count > 10
    /\ Len(result.cached.body.results) = 10
    /\ result.cached.body.count = result.fresh.body.count

IsLetter(c) == c \in {"A", "B", "L", "P", "a", "b", "l", "p"}
PatternHolds(symbol) ==
    /\ Len(symbol) >= 1 /\ Len(symbol) <= 6
    /\ \A i \in 1 .. Len(symbol) : IsLetter(symbol[i]) /\ symbol[i] # "."
AllPatternHolds(list) == \A k \in 1 .. Len(list) : PatternHolds(list[k].symbol)

\* C30: every symbol of the stored list, of the results computed from it and
\* of the results read back from the cache is made of letters only, has no
\* dot and at most 6 characters; the count is the length of that list, so an
\* upstream item on an allowed exchange with another kind of symbol is in
\* neither.
C30_SymbolPattern ==
    Searched =>
        LET sorted == result.stored[SearchKey(trial.query)].data IN
        /\ AllPatternHolds(sorted)
        /\ AllPatternHolds(result.fresh.body.results)
        /\ result.fresh.body.count = Len(sorted)
        /\ result.stage = 2 =>
              /\ AllPatternHolds(result.cached.body.results)
              /\ result.cached.body.count = Len(sorted)
        /\ \A i \in 1 .. Len(trial.items) :
              ~PatternHolds(trial.items[i].symbol) =>
                  \A k \in 1 .. Len(sorted) : sorted[k].symbol # trial.items[i].symbol

\* a payload with a dotted, a digit or a 7-letter symbol on an allowed
\* exchange next to items that pass, answered from the cache
C30_Witness ==
    /\ Searched
    /\ result.stage = 2
    /\ \E i \in 1 .. Len(trial.items) :
          /\ ~PatternHolds(trial.items[i].symbol)
          /\ trial.items[i].exchangeShortName \in {"NYSE", "NASDAQ", "AMEX"}
    /\ result.cached.body.count >= 1
    /\ result.cached.body.count < Len(trial.items)

\* C26: every POST /api/strategy answered 200 has added one strategy: the
\* store holds as many strategies as POSTs were answered 200, and a GET
\* returns that many with that count.
C26_OnePerPost ==
    /\ Len(strategies) = posted
    /\ \A t \in Threads :
          (Done(t) /\ kind[t] = "strategy_get") =>
              /\ resp[t].body.count = posted
              /\ Len(resp[t].body.strategies) = posted

\* C27: each stored strategy's 'id' is the key it is stored under, and its
\* 'timestamp' is a reading of the server's clock, whatever the POST payload
\* holds.
C27_IdIsKey ==
    \A i \in 1 .. Len(strategies) :
        /\ strategies[i].value.id = strategies[i].key
        /\ strategies[i].value.timestamp >= Epoch
        /\ strategies[i].value.timestamp <= now

\* C22: no step removes a key from the cache: whatever quote, search,
\* exchange-rate and status requests do, a key once stored stays (its entry
\* may be replaced), stale entries included.
C22_KeysNeverRemoved ==
    [][DOMAIN cache \subseteq DOMAIN cache']_vars

\* two keys in the cache, one of them with an entry older than 300 s
C22_Witness ==
    /\ Cardinality(DOMAIN cache) >= 2
    /\ \E k \in DOMAIN cache : now - cache[k].time >= CACHE_DURATION

\* the upstream of the run answered with a KRW rate
UpstreamGaveRate ==
    /\ ~trial.raised
    /\ "rates" \in DOMAIN trial.data
    /\ "KRW" \in DOMAIN trial.data.rates

\* C28: every exchange-rate request is answered 200 with a rate; on a cache
\* miss the rate is the upstream's KRW rate when the upstream call gave one
\* and 1300 otherwise, and the source is 'API' exactly when the rate came
\* from the upstream.
C28_RateNeverFails ==
    \A t \in Threads :
        (Done(t) /\ kind[t] = "rate") =>
            /\ resp[t].status = 200
            /\ "rate" \in DOMAIN resp[t].body
            /\ served[t] = "api" =>
                  /\ UpstreamGaveRate => resp[t].body.rate = trial.data.rates.KRW
                  /\ ~UpstreamGaveRate => resp[t].body.rate = 1300
                  /\ resp[t].source = "API" <=> UpstreamGaveRate

====
